---- MODULE Spec2Model ----
(***************************************************************************)
(* Model of scripts/one_molecule.py: find_molecules (fragment detection on *)
(* the neighbour list of a periodic structure) and its caller              *)
(* extract_and_write_monomer (index check, sub-structure, two writes).     *)
(***************************************************************************)
EXTENDS Integers, Sequences, FiniteSets

\* Largest number of atoms in the structure read from the CIF file.
MaxAtoms == 4
\* Largest number of distinct contacts (pairs within cutoff) in the structure.
MaxBonds == 2
\* molecule_index ranges over -MaxIndex .. MaxIndex.
MaxIndex == 3

VARIABLES
    cif,             \* the structure stored in the file at cif_path
    atoms,           \* the structure returned by ase.io.read
    pc,              \* position inside extract_and_write_monomer
    G,               \* the nx.Graph built by find_molecules
    fragments,       \* list of sets returned by find_molecules
    molecule_index,  \* the argument of extract_and_write_monomer
    frag,            \* the selected fragment
    mol,             \* the extracted sub-structure
    files,           \* the files written so far, in order
    error            \* the ValueError raised, if any

vars == <<cif, atoms, pc, G, fragments, molecule_index, frag, mol, files, error>>

----------------------------------------------------------------------------
\* Periodic shift vectors S of a candidate bond.

Zero == <<0, 0, 0>>

Neg(s) == <<0 - s[1], 0 - s[2], 0 - s[3]>>

\* Shifts under which a pair a < b may be in contact (the reverse entry
\* b, a carries the negated shift).
PairShifts == {Zero, <<1, 0, 0>>, <<1, -1, 0>>}

\* Shifts under which an atom may be in contact with its own image.
SelfShifts == {<<1, 0, 0>>, <<1, -1, 0>>}

\* Contacts a structure of n atoms may have: what the neighbour search finds.
Contacts(n) ==
    {<<a, b, s>> : a \in 0..(n - 1), b \in 0..(n - 1), s \in PairShifts}
        \cap {c \in (0..(n - 1)) \X (0..(n - 1)) \X PairShifts :
                 \/ c[1] < c[2]
                 \/ c[1] = c[2] /\ c[3] \in SelfShifts}

RECURSIVE ContactSets(_, _)
ContactSets(n, k) ==
    IF k = 0 THEN {{}}
    ELSE LET prev == ContactSets(n, k - 1)
         IN  prev \cup {P \cup {c} : P \in prev, c \in Contacts(n)}

\* neighbor_list(quantities='ijS'): every contact is listed in both
\* directions, (i, j, S) and (j, i, -S); the list is sorted by i.
Entries(contacts) ==
    {[i |-> c[1], j |-> c[2], S |-> c[3]] : c \in contacts}
        \cup {[i |-> c[2], j |-> c[1], S |-> Neg(c[3])] : c \in contacts}

ShiftRank(s) == (s[1] + 1) * 9 + (s[2] + 1) * 3 + (s[3] + 1)

\* Position of an entry in the list: by i, then (the order inside one i is
\* the search's own) ascending or descending in (j, S).
EntryKey(e, tie) ==
    LET inner == e.j * 27 + ShiftRank(e.S)
    IN  e.i * 27 * (MaxAtoms + 2) + (IF tie THEN inner ELSE 27 * (MaxAtoms + 2) - 1 - inner)

RECURSIVE SortEntries(_, _)
SortEntries(es, tie) ==
    IF es = {} THEN <<>>
    ELSE LET first == CHOOSE e \in es :
                         \A f \in es : EntryKey(e, tie) <= EntryKey(f, tie)
         IN  <<first>> \o SortEntries(es \ {first}, tie)

neighbor_list(a) == SortEntries(Entries(a.contacts), a.tie)

----------------------------------------------------------------------------
\* find_molecules

\* sum(s) == 0
Qualifies(s) == s[1] + s[2] + s[3] = 0

EmptyGraph == [nodes |-> <<>>, edges |-> {}]

InSeq(x, seq) == \E k \in 1..Len(seq) : seq[k] = x

AddNode(nodes, x) == IF InSeq(x, nodes) THEN nodes ELSE Append(nodes, x)

\* G.add_edge(a, b): the nodes are added in the order a, b when new.
add_edge(g, a, b) ==
    [nodes |-> AddNode(AddNode(g.nodes, a), b),
     edges |-> g.edges \cup {{a, b}}]

\* The loop over zip(i, j, S), from entry k on.
RECURSIVE BuildGraph(_, _, _)
BuildGraph(g, bonds, k) ==
    IF k > Len(bonds) THEN g
    ELSE LET e == bonds[k]
         IN  BuildGraph(IF Qualifies(e.S) THEN add_edge(g, e.i, e.j) ELSE g,
                        bonds, k + 1)

Neighbours(g, v) == {w \in UNION g.edges : {v, w} \in g.edges}

\* networkx _plain_bfs: the set of nodes reachable from the seen set.
RECURSIVE plain_bfs(_, _, _)
plain_bfs(g, seen, level) ==
    IF level = {} THEN seen
    ELSE LET next == (UNION {Neighbours(g, v) : v \in level}) \ seen
         IN  plain_bfs(g, seen \cup next, next)

\* nx.connected_components: for v in G, if v not in seen, yield its component.
RECURSIVE ComponentsFrom(_, _, _)
ComponentsFrom(g, k, seen) ==
    IF k > Len(g.nodes) THEN <<>>
    ELSE LET v == g.nodes[k]
         IN  IF v \in seen THEN ComponentsFrom(g, k + 1, seen)
             ELSE LET c == plain_bfs(g, {v}, {v})
                  IN  <<c>> \o ComponentsFrom(g, k + 1, seen \cup c)

RECURSIVE ReversedComponentsFrom(_, _, _)
ReversedComponentsFrom(g, k, seen) ==
    IF k < 1 THEN <<>>
    ELSE LET v == g.nodes[k]
         IN  IF v \in seen THEN ReversedComponentsFrom(g, k - 1, seen)
             ELSE LET c == plain_bfs(g, {v}, {v})
                  IN  <<c>> \o ReversedComponentsFrom(g, k - 1, seen \cup c)

\* A traversal that walks the nodes from the last inserted to the first.
connected_components_reversed(g) == ReversedComponentsFrom(g, Len(g.nodes), {})

connected_components(g) == ComponentsFrom(g, 1, {})

----------------------------------------------------------------------------
\* extract_and_write_monomer

\* fragments[molecule_index] of a Python list: a negative index counts from
\* the end; anything outside -len .. len-1 is an IndexError.
IndexError(list, idx) == idx >= Len(list) \/ idx < 0 - Len(list)

GetItem(list, idx) == IF idx >= 0 THEN list[idx + 1] ELSE list[Len(list) + idx + 1]

\* list(frag): the orders in which a set may be iterated.
RECURSIVE ListOrders(_)
ListOrders(s) ==
    IF s = {} THEN {<<>>}
    ELSE UNION {{<<x>> \o rest : rest \in ListOrders(s \ {x})} : x \in s}

NoPbc == <<FALSE, FALSE, FALSE>>

Init ==
    /\ \E n \in 1..MaxAtoms, tie \in BOOLEAN :
         \E P \in ContactSets(n, MaxBonds) :
            cif = [natoms |-> n, contacts |-> P, tie |-> tie,
                   pbc |-> <<TRUE, TRUE, TRUE>>]
    /\ atoms = cif
    /\ pc = "read"
    /\ G = EmptyGraph
    /\ fragments = <<>>
    /\ molecule_index = 0
    /\ frag = {}
    /\ mol = [index |-> <<>>, pbc |-> <<TRUE, TRUE, TRUE>>]
    /\ files = <<>>
    /\ error = [raised |-> FALSE, found |-> 0, index |-> 0]

\* fragments = find_molecules(atoms)
FindMolecules ==
    /\ pc = "read"
    /\ G' = BuildGraph(EmptyGraph, neighbor_list(atoms), 1)
    /\ fragments' = connected_components(G')
    /\ pc' = "select"
    /\ UNCHANGED <<cif, atoms, molecule_index, frag, mol, files, error>>

\* The index check placed after the first write.
SelectAfterWrite ==
    /\ pc = "select"
    /\ \E idx \in (0 - MaxIndex)..MaxIndex :
         /\ molecule_index' = idx
         /\ IF IndexError(fragments, idx)
            THEN /\ error' = [raised |-> TRUE, found |-> Len(fragments), index |-> idx]
                 /\ pc' = "raised"
                 /\ files' = Append(files, "xyz")
                 /\ UNCHANGED frag
            ELSE /\ frag' = GetItem(fragments, idx)
                 /\ pc' = "extract"
                 /\ UNCHANGED <<error, files>>
    /\ UNCHANGED <<cif, atoms, G, fragments, mol>>

\* try: frag = fragments[molecule_index]
\* except IndexError: raise ValueError(f"Only {len(fragments)} molecules found ...")
Select ==
    /\ pc = "select"
    /\ \E idx \in (0 - MaxIndex)..MaxIndex :
         /\ molecule_index' = idx
         /\ IF IndexError(fragments, idx)
            THEN /\ error' = [raised |-> TRUE, found |-> Len(fragments), index |-> idx]
                 /\ pc' = "raised"
                 /\ UNCHANGED frag
            ELSE /\ frag' = GetItem(fragments, idx)
                 /\ pc' = "extract"
                 /\ UNCHANGED error
    /\ UNCHANGED <<cif, atoms, G, fragments, mol, files>>

\* mol = atoms[list(frag)]; mol.set_pbc((False, False, False))
Extract ==
    /\ pc = "extract"
    /\ \E order \in ListOrders(frag) :
         mol' = [index |-> order, pbc |-> NoPbc]
    /\ pc' = "write_xyz"
    /\ UNCHANGED <<cif, atoms, G, fragments, molecule_index, frag, files, error>>

\* ase.io.write(xyz_path, mol)
WriteXyz ==
    /\ pc = "write_xyz"
    /\ files' = Append(files, "xyz")
    /\ pc' = "write_com"
    /\ UNCHANGED <<cif, atoms, G, fragments, molecule_index, frag, mol, error>>

\* calc.write_input(mol)
WriteGaussian ==
    /\ pc = "write_com"
    /\ files' = Append(files, "com")
    /\ pc' = "done"
    /\ UNCHANGED <<cif, atoms, G, fragments, molecule_index, frag, mol, error>>

Next ==
    \/ FindMolecules
    \/ Select
    \/ Extract
    \/ WriteXyz
    \/ WriteGaussian

Spec == Init /\ [][Next]_vars

----------------------------------------------------------------------------
\* Vocabulary of the properties.

AtomIndices == 0..(atoms.natoms - 1)

\* The candidate bonds of the structure, as find_molecules receives them.
CandidateBonds == neighbor_list(atoms)

\* find_molecules has returned.
Returned == pc # "read"

FragmentSet == {fragments[k] : k \in 1..Len(fragments)}

\* The pairs joined by a candidate bond whose shift is exactly (0,0,0).
ZeroShiftEdges ==
    {{CandidateBonds[k].i, CandidateBonds[k].j} :
        k \in {n \in 1..Len(CandidateBonds) : CandidateBonds[n].S = Zero}}

RECURSIVE ZeroShiftReach(_)
ZeroShiftReach(s) ==
    LET next == s \cup {w \in AtomIndices : \E v \in s : {v, w} \in ZeroShiftEdges}
    IN  IF next = s THEN s ELSE ZeroShiftReach(next)

HasZeroShiftBond(a) == \E e \in ZeroShiftEdges : a \in e

SameFragment(a, b) ==
    \E k \in 1..Len(fragments) : a \in fragments[k] /\ b \in fragments[k]

\* The endpoints passed to add_edge, in call order: a then b of each
\* candidate bond (from entry k on) that passes the filter of the loop.
RECURSIVE InsertionOrder(_, _)
InsertionOrder(bonds, k) ==
    IF k > Len(bonds) THEN <<>>
    ELSE (IF Qualifies(bonds[k].S) THEN <<bonds[k].i, bonds[k].j>> ELSE <<>>)
             \o InsertionOrder(bonds, k + 1)

\* Position in the insertion order ins of the first atom of fragment c
\* (0 when no atom of c was ever inserted).
FirstInsertion(ins, c) ==
    LET at == {k \in 1..Len(ins) : ins[k] \in c}
    IN  IF at = {} THEN 0 ELSE CHOOSE k \in at : \A l \in at : k <= l

Ascending(seq) == \A k \in 1..(Len(seq) - 1) : seq[k] < seq[k + 1]

Written == pc \in {"write_xyz", "write_com", "done"}

----------------------------------------------------------------------------
\* C1: the fragments returned by find_molecules partition the atom index
\* set: every atom index 0..N-1 lies in exactly one returned fragment.
C1_FragmentsPartitionAtoms ==
    Returned =>
        \A a \in AtomIndices :
            Cardinality({k \in 1..Len(fragments) : a \in fragments[k]}) = 1

\* C2: an edge enters the graph only for a candidate bond whose shift is
\* exactly (0,0,0): every edge of G joins two distinct atoms that have a
\* zero-shift candidate bond (no edge from a shift such as (1,-1,0), no
\* self-image edge a-a).
C2_EdgesOnlyFromZeroShift ==
    Returned => \A e \in G.edges : Cardinality(e) = 2 /\ e \in ZeroShiftEdges

\* C3: every atom without a zero-shift bond is returned as a singleton
\* fragment; with no bonds at all the result is exactly N singletons whose
\* union is the atom index set.
C3_IsolatedAtomsAreSingletons ==
    Returned =>
        /\ \A a \in AtomIndices : ~HasZeroShiftBond(a) => {a} \in FragmentSet
        /\ Len(CandidateBonds) = 0 =>
              /\ Len(fragments) = atoms.natoms
              /\ FragmentSet = {{a} : a \in AtomIndices}

\* C4: every molecule_index outside 0 .. len(fragments)-1, negative ones
\* included, makes the call fail with an error reporting len(fragments);
\* no fragment is selected.
C4_OutOfRangeIndexRaises ==
    (pc \notin {"read", "select"} /\ molecule_index \notin 0..(Len(fragments) - 1)) =>
        /\ pc = "raised"
        /\ error.raised
        /\ error.found = Len(fragments)

\* C5: two atoms whose only candidate bonds join them under a nonzero shift
\* come back as exactly the two singleton fragments {0} and {1}.
C5_ShiftedPairStaysSplit ==
    (/\ Returned
     /\ atoms.natoms = 2
     /\ atoms.contacts # {}
     /\ \A c \in atoms.contacts : c[1] = 0 /\ c[2] = 1 /\ c[3] # Zero) =>
        /\ Len(fragments) = 2
        /\ FragmentSet = {{0}, {1}}

\* C6: the fragments are exactly the connected components of the graph of
\* zero-shift candidate bonds over the atom indices: two atoms share a
\* fragment iff a path of zero-shift bonds joins them, and no component is
\* returned twice.
C6_FragmentsAreZeroShiftComponents ==
    Returned =>
        /\ \A a \in AtomIndices, b \in AtomIndices :
              SameFragment(a, b) <=> b \in ZeroShiftReach({a})
        /\ Cardinality(FragmentSet) = Len(fragments)

\* The cell holds molecule A = 0..m-1 and its translate B = m..2m-1: the
\* zero-shift bonds lie inside A or inside B, those of B are those of A moved
\* by m, each molecule is connected, and A and B touch under a nonzero shift.
DimerCell(m) ==
    LET A == 0..(m - 1)
        B == m..(2 * m - 1)
    IN  /\ atoms.natoms = 2 * m
        /\ \A e \in ZeroShiftEdges : e \subseteq A \/ e \subseteq B
        /\ \A a \in A, b \in A :
              {a, b} \in ZeroShiftEdges <=> {a + m, b + m} \in ZeroShiftEdges
        /\ ZeroShiftReach({0}) = A
        /\ \E c \in atoms.contacts : c[1] \in A /\ c[2] \in B /\ c[3] # Zero

\* C7: for a cell of two molecules A and B, B a translate of A, bonded at
\* zero shift only internally, find_molecules returns exactly the two
\* fragments A and B.
C7_DimerGivesTwoFragments ==
    \A m \in 1..MaxAtoms :
        (Returned /\ DimerCell(m)) =>
            /\ Len(fragments) = 2
            /\ FragmentSet = {0..(m - 1), m..(2 * m - 1)}

\* C8: the sub-structure holds exactly the atoms of the chosen fragment, in
\* ascending original index, with periodicity off on all three axes when it
\* is written.
C8_SubstructureKeepsOrder ==
    Written =>
        /\ {mol.index[k] : k \in 1..Len(mol.index)} = frag
        /\ Len(mol.index) = Cardinality(frag)
        /\ Ascending(mol.index)
        /\ mol.pbc = NoPbc

\* On return from find_molecules the fragments come in the order of the
\* first insertion of one of their atoms into the graph, and each holds an
\* inserted atom.
FirstDiscoveredOrder ==
    pc = "select" =>
        LET ins   == InsertionOrder(CandidateBonds, 1)
            first == [k \in 1..Len(fragments) |-> FirstInsertion(ins, fragments[k])]
        IN  /\ \A k \in 1..Len(fragments) : first[k] > 0
            /\ \A k \in 1..Len(fragments), l \in 1..Len(fragments) :
                  k < l => first[k] < first[l]

\* C9: the result of find_molecules is fixed by the ordered candidate-bond
\* list: the fragments are listed in the order of their first-discovered
\* atom (first insertion into the graph), and the structure handed to
\* find_molecules is still the one that was read.
C9_DeterministicFirstDiscoveredOrder ==
    /\ FirstDiscoveredOrder
    /\ atoms = cif

C9_Witness ==
    /\ pc = "select"
    /\ Len(fragments) >= 2
    /\ \E a \in fragments[1], b \in fragments[2] : b < a

\* C10: a rejected molecule_index leaves no file written; a successful call
\* writes the .xyz file first and the Gaussian input second, once each.
C10_CheckPrecedesWrites ==
    /\ pc \in {"read", "select", "raised", "extract", "write_xyz"} => files = <<>>
    /\ pc = "write_com" => files = <<"xyz">>
    /\ pc = "done" => files = <<"xyz", "com">>

C10_Witness ==
    /\ pc = "raised"
    /\ error.raised
    /\ IndexError(fragments, molecule_index)
    /\ files = <<>>

====
